---------------------------- MODULE Spec2Model ----------------------------
(***************************************************************************)
(* Model of src/app.py, a Streamlit dashboard over the GitHub REST API.    *)
(*                                                                         *)
(* The module holds                                                        *)
(*   - the pure computations of the script as operators:                   *)
(*       strptime, calculate_velocity_metrics, predict_growth,             *)
(*       top_contributors;                                                 *)
(*   - the script run as a state machine (Spec): the user's events, the    *)
(*     cached fetch_repo_data with its five HTTP requests, the check of    *)
(*     the snapshot, the metric computations and the rendering;            *)
(*   - one specification per pure function (SpecVelocity, SpecForecast,    *)
(*     SpecRank) whose Init draws the arguments from bounded sets and      *)
(*     whose actions apply the function.                                   *)
(*                                                                         *)
(* Python values are modelled as follows.  A dict is a record (a function  *)
(* on its keys), a list is a sequence, and the empty dict and the empty    *)
(* list are both <<>> (both are falsy in Python, which is all the script   *)
(* asks of them).  A float is a record [num, den, err]: the rational        *)
(* num/den in lowest terms, and err in {-1, 0, 1} saying whether the float *)
(* lies a rounding error below it, is it, or lies a rounding error above   *)
(* it.  A float made from an integer has err = 0.  The script's own        *)
(* arithmetic, merged_prs / len(prs) * 100, is carried out as IEEE 754     *)
(* binary64 does it, digit by digit, and its err is the side on which the  *)
(* float so obtained lies.  What the float64 least-squares solver of       *)
(* predict_growth returns is the least-squares value with an err the       *)
(* source does not fix: every err is a possible outcome.  Time is counted  *)
(* in                                                                      *)
(* whole seconds since the epoch; datetime.now() carries microseconds, but *)
(* the timestamps it is compared with carry none, so the comparison        *)
(* ts > now - 7d is decided by the whole seconds of now.                   *)
(***************************************************************************)
EXTENDS Integers, Sequences, FiniteSets, TLC

VARIABLES
    \* ---- the script run (Spec) ----
    clock,            \* the current instant, seconds since the epoch (UTC)
    tz,               \* offset of the host's local time from UTC, seconds
    org_name,         \* st.sidebar.text_input "GitHub Organization"
    repo_name,        \* st.sidebar.text_input "Repository Name"
    refresh_button,   \* st.sidebar.button: TRUE in the run its press started
    cache,            \* st.cache_data store of fetch_repo_data
    pc,               \* position of the script run
    requests,         \* resources requested over HTTP in the current run
    responses,        \* what each of those requests answered
    data,             \* value returned by fetch_repo_data in the current run
    messages,         \* st.error / st.info notices shown in the current run
    velocity,         \* result of calculate_velocity_metrics in this run
    top_contributors, \* the sorted contributors of tab2
    predicted,        \* result of predict_growth in tab4
    outcome,          \* how the last run ended
    executed,         \* per key: when fetch_repo_data's body last ran, and
                      \* what it returned (history of the real fetches)
    prior,            \* executed[key] as it was when the current call began
    callAt,           \* clock when the current call of fetch_repo_data began
    ticks,            \* number of clock advances so far
    runs,             \* number of script runs so far
    non200s,          \* number of non-200 answers so far
    \* ---- the pure-function specifications ----
    op,               \* which function the specification applies
    args,             \* its arguments
    result            \* its result, Pending before the call

appvars == <<clock, tz, org_name, repo_name, refresh_button, cache, pc,
             requests, responses, data, messages, velocity,
             top_contributors, predicted, outcome, executed, prior, callAt,
             ticks, runs, non200s>>
purevars == <<op, args, result>>
vars == <<appvars, purevars>>

----------------------------------------------------------------------------
(* Program constants.                                                      *)

TTL == 600                  \* @st.cache_data(ttl=600)
DaysLastWeek == 7           \* timedelta(days=7)
TopK == 10                  \* contributors[:10]
ForecastPeriods == 30       \* predict_growth(..., periods=30)
DaysPast == 30              \* days_past = 30
StarStep == 10              \* (days_past - i) * 10

SecondsPerDay == 86400
Week == DaysLastWeek * SecondsPerDay

(* Bounds of the model.                                                    *)

MaxCommits == 2             \* longest commit list drawn
MaxPrs == 3                 \* longest pull-request list drawn
MaxHistory == 3             \* longest forecast history drawn
MaxPeriods == 2             \* largest periods argument drawn
MaxValue == 2               \* history values are drawn from 0..MaxValue
MaxContributors == 11       \* longest contributor list drawn
MaxTicks == 2               \* clock advances in one behaviour
MaxRuns == 3                \* script runs in one behaviour
MaxNon200 == 1              \* non-200 answers in one behaviour

----------------------------------------------------------------------------
(* Generic helpers.                                                        *)

Min(a, b) == IF a <= b THEN a ELSE b
Abs(a) == IF a < 0 THEN -a ELSE a

RECURSIVE Gcd(_, _)
Gcd(a, b) == IF b = 0 THEN a ELSE Gcd(b, a % b)

\* The rational n/d in lowest terms with a positive denominator: the exact
\* value of a computation, before any rounding to a float.
Rat(n, d) ==
    LET g == Gcd(Abs(n), Abs(d))
        s == IF d < 0 THEN -1 ELSE 1
    IN  [num |-> s * (n \div g), den |-> s * (d \div g)]

\* float(i) of an integer i.
Float(i) == [num |-> i, den |-> 1, err |-> 0]

\* The outcomes of a float64 computation whose exact value is q: q, or a
\* float a rounding error below (-1) or above (1) it.
Roundings == {-1, 0, 1}
Rounded(q, e) == [num |-> q.num, den |-> q.den, err |-> e]

----------------------------------------------------------------------------
(* IEEE 754 binary64 arithmetic, as Python's float does it.  A natural     *)
(* number too wide for the checker's integers is the sequence of its       *)
(* digits in base 2^10, most significant first (0 is the empty sequence).  *)
(* A positive float is [mant, exp], standing for mant * 2^exp, where mant  *)
(* is a natural number of 53 binary digits (or 2^53 itself, when rounding  *)
(* carried into a 54th).                                                   *)

SignificandBits == 53       \* sys.float_info.mant_dig
DigitBits == 10
Base == 2^DigitBits

RECURSIVE Digits(_)
Digits(k) == IF k = 0 THEN <<>> ELSE Append(Digits(k \div Base), k % Base)

Zeros(k) == [i \in 1..k |-> 0]

\* k * 2^s for a small k.
Shifted(k, s) == Digits(k * 2^(s % DigitBits)) \o Zeros(s \div DigitBits)

RECURSIVE Strip(_)
Strip(b) == IF Len(b) > 0 /\ b[1] = 0 THEN Strip(Tail(b)) ELSE b

\* The number of binary digits of b.
RECURSIVE BitLength(_)
BitLength(k) == IF k = 0 THEN 0 ELSE 1 + BitLength(k \div 2)
BitLengthOf(b) ==
    IF Len(b) = 0 THEN 0 ELSE DigitBits * (Len(b) - 1) + BitLength(b[1])

\* b * c + carry for small c and carry, worked from the last digit: the
\* digits at places i..Len(b), and what is carried over them.
RECURSIVE TimesFrom(_, _, _, _)
TimesFrom(b, c, i, carry) ==
    IF i > Len(b) THEN [digits |-> <<>>, carry |-> carry]
    ELSE LET low == TimesFrom(b, c, i + 1, carry)
             t == b[i] * c + low.carry
         IN  [digits |-> <<t % Base>> \o low.digits, carry |-> t \div Base]
TimesPlus(b, c, carry) ==
    LET whole == TimesFrom(b, c, 1, carry)
    IN  Digits(whole.carry) \o whole.digits

\* b divided by a small d, worked from the first digit: the quotient of
\* the digits at places 1..i, and the remainder.
RECURSIVE DivideUpTo(_, _, _)
DivideUpTo(b, d, i) ==
    IF i = 0 THEN [digits |-> <<>>, rem |-> 0]
    ELSE LET high == DivideUpTo(b, d, i - 1)
             t == high.rem * Base + b[i]
         IN  [digits |-> Append(high.digits, t \div d), rem |-> t % d]

\* Round to nearest, ties to even: the whole number nearest to b / d.
RoundToNearestEven(b, d) ==
    LET whole == DivideUpTo(b, d, Len(b))
        q == Strip(whole.digits)
        odd == Len(q) > 0 /\ q[Len(q)] % 2 = 1
        up == 2 * whole.rem > d \/ (2 * whole.rem = d /\ odd)
    IN  IF up THEN TimesPlus(q, 1, 1) ELSE q

\* -1, 0, 1 as a < b, a = b, a > b; neither has a leading 0.
RECURSIVE CompareFrom(_, _, _)
CompareFrom(a, b, i) ==
    IF i > Len(a) THEN 0
    ELSE IF a[i] # b[i] THEN (IF a[i] < b[i] THEN -1 ELSE 1)
    ELSE CompareFrom(a, b, i + 1)
CompareDigits(a, b) ==
    IF Len(a) # Len(b) THEN (IF Len(a) < Len(b) THEN -1 ELSE 1)
    ELSE CompareFrom(a, b, 1)

\* The least k with m * 2^k >= n.
RECURSIVE ShiftToReach(_, _)
ShiftToReach(m, n) == IF m >= n THEN 0 ELSE 1 + ShiftToReach(2 * m, n)

\* m / n of two ints, 0 < m <= n: the correctly rounded quotient.  With
\* n <= m * 2^k < 2n the quotient scaled by 2^(52+k) has 53 binary digits
\* before the point, and is rounded there.
TrueDiv(m, n) ==
    LET k == ShiftToReach(m, n)
        s == SignificandBits - 1 + k
    IN  [mant |-> RoundToNearestEven(Shifted(m * 2^k, SignificandBits - 1), n),
         exp |-> 0 - s]

\* x * c of a float and a small int: the correctly rounded product.  The
\* exact product is cut to 53 binary digits.
TimesInt(x, c) ==
    LET product == TimesPlus(x.mant, c, 0)
        cut == IF BitLengthOf(product) > SignificandBits
               THEN BitLengthOf(product) - SignificandBits ELSE 0
    IN  [mant |-> RoundToNearestEven(product, 2^cut), exp |-> x.exp + cut]

\* On which side of the rational p / q (p, q > 0 and small) the float x
\* (x.exp <= 0) lies: -1 below, 0 on it, 1 above.
SideOf(x, p, q) ==
    CompareDigits(TimesPlus(x.mant, q, 0), Shifted(p, 0 - x.exp))

\* All sequences over S of length 0..n.
SeqsUpTo(S, n) == UNION {[1..k -> S] : k \in 0..n}

Pending == [state |-> "pending"]
Done(v) == [state |-> "done", value |-> v]

----------------------------------------------------------------------------
(* Timestamps.  GitHub writes an instant as 'YYYY-MM-DDTHH:MM:SSZ'.  The   *)
(* text is modelled by its fields: day (the date, as days since the        *)
(* epoch), hh, mm, ss.  A field of a JSON record is                        *)
(*   kind "str"     a string of that format (its fields may be out of      *)
(*                  range, as in '...T25:00:00Z'),                         *)
(*   kind "none"    JSON null,                                             *)
(*   kind "missing" the key is absent.                                     *)

Timestamp(day, hh, mm, ss) ==
    [kind |-> "str", day |-> day, hh |-> hh, mm |-> mm, ss |-> ss]
None == [kind |-> "none", day |-> 0, hh |-> 0, mm |-> 0, ss |-> 0]
Missing == [kind |-> "missing", day |-> 0, hh |-> 0, mm |-> 0, ss |-> 0]

\* The text GitHub writes for the instant t: the input side of the model.
Isoformat(t) ==
    Timestamp(t \div SecondsPerDay, (t % SecondsPerDay) \div 3600,
              (t % 3600) \div 60, t % 60)

Raised(exc) == [raised |-> TRUE, exc |-> exc, value |-> 0]
Returned(v) == [raised |-> FALSE, exc |-> "", value |-> v]

\* record[key]: KeyError when the key is absent.
GetItem(field) ==
    IF field.kind = "missing" THEN Raised("KeyError") ELSE Returned(field)

\* datetime.strptime(s, '%Y-%m-%dT%H:%M:%SZ'): the naive datetime of the
\* fields, as seconds; TypeError for a non-string, ValueError for fields
\* out of range.
strptime(s) ==
    IF s.kind # "str" THEN Raised("TypeError")
    ELSE IF s.hh > 23 \/ s.mm > 59 \/ s.ss > 59 THEN Raised("ValueError")
    ELSE Returned(s.day * SecondsPerDay + s.hh * 3600 + s.mm * 60 + s.ss)

\* datetime.now(): the naive local time of the host.
datetime_now(utc, offset) == utc + offset

\* Truthiness of pr.get('merged_at'): a non-empty string.
Truthy(field) == field.kind = "str"


----------------------------------------------------------------------------
(* calculate_velocity_metrics (src/app.py 84-108).                         *)

CommitRecord(date) == [commit |-> [author |-> [date |-> date]]]
PrRecord(created_at, merged_at) ==
    [created_at |-> created_at, merged_at |-> merged_at]

\* c['commit']['author']['date'] and pr['created_at'].
CommitDate(c) == c.commit.author.date
PrCreatedAt(pr) == pr.created_at

\* The generator's condition for one record, lines 92-93 and 96-97:
\* strptime(record[key], fmt) > last_week.
IsNewer(field, last_week) ==
    LET f == GetItem(field)
    IN  IF f.raised THEN f
        ELSE LET t == strptime(f.value)
             IN  IF t.raised THEN t ELSE Returned(t.value > last_week)

\* sum(1 for x in xs if <condition>): the records are visited in order and
\* the first one that raises ends the sum with its exception.
RECURSIVE SumNewer(_, _, _)
SumNewer(fields, last_week, i) ==
    IF i > Len(fields) THEN Returned(0)
    ELSE LET here == IsNewer(fields[i], last_week)
         IN  IF here.raised THEN here
             ELSE LET rest == SumNewer(fields, last_week, i + 1)
                  IN  IF rest.raised THEN rest
                      ELSE Returned(rest.value
                                    + (IF here.value THEN 1 ELSE 0))

\* sum(1 for pr in prs if pr.get('merged_at')), line 99.
MergedPrs(prs) == Cardinality({i \in 1..Len(prs) : Truthy(prs[i].merged_at)})

\* (merged_prs / len(prs) * 100) if prs else 0, line 100.
\* Faulty variant: the division without the emptiness guard; 0 / 0 is written as the
\* not-a-number [num |-> 0, den |-> 0].
\* merged_prs / len(prs) * 100 for a list that is not empty: the float
\* of two roundings, told by the exact value and the side it lies on.
DivTimes100(merged_prs, total) ==
    IF merged_prs = 0 THEN Float(0)
    ELSE Rounded(Rat(merged_prs * 100, total),
                 SideOf(TimesInt(TrueDiv(merged_prs, total), 100),
                        merged_prs * 100, total))

PrMergeRateUnguarded(merged_prs, prs) ==
    IF Len(prs) > 0 THEN DivTimes100(merged_prs, Len(prs))
    ELSE [num |-> 0, den |-> 0, err |-> 0]
PrMergeRate(merged_prs, prs) ==
    IF Len(prs) > 0 THEN DivTimes100(merged_prs, Len(prs)) ELSE Float(0)

calculate_velocity_metrics(commits, prs, now) ==
    LET last_week == now - Week
        commits_last_week ==
            SumNewer([i \in 1..Len(commits) |-> CommitDate(commits[i])],
                     last_week, 1)
        prs_last_week ==
            SumNewer([i \in 1..Len(prs) |-> PrCreatedAt(prs[i])],
                     last_week, 1)
        merged_prs == MergedPrs(prs)
    IN  IF commits_last_week.raised THEN commits_last_week
        ELSE IF prs_last_week.raised THEN prs_last_week
        ELSE Returned([commits_last_week |-> commits_last_week.value,
                       prs_last_week |-> prs_last_week.value,
                       total_prs |-> Len(prs),
                       merged_prs |-> merged_prs,
                       pr_merge_rate |-> PrMergeRate(merged_prs, prs)])

----------------------------------------------------------------------------
(* predict_growth (src/app.py 111-128).  LinearRegression().fit(X, y) with *)
(* X = 0..k-1 is ordinary least squares with an intercept; predict(x) is   *)
(* a + b*x with b = cov/var and a = mean(y) - b*mean(x).  The library      *)
(* solves it in float64: each value it returns is the least-squares value  *)
(* up to a rounding error, and which way it errs depends on the build of   *)
(* the solver.  rounding[j] is the way the build errs on the j-th value    *)
(* for this input; it is the same every time the same input is given, for  *)
(* the call makes a new LinearRegression (line 122) and draws nothing at   *)
(* random.                                                                 *)

RECURSIVE SumOver(_, _, _)
SumOver(f, lo, hi) == IF lo > hi THEN 0 ELSE f[lo] + SumOver(f, lo + 1, hi)

RECURSIVE ProductOver(_, _, _)
ProductOver(f, lo, hi) ==
    IF lo > hi THEN 1 ELSE f[lo] * ProductOver(f, lo + 1, hi)

\* model.fit(X, y); model.predict([[x]]) for X = arange(len(data)), the
\* float erring by e from the least-squares value.
LinearRegressionPredict(series, x, e) ==
    LET n == Len(series)
        D == ProductOver([i \in 1..n |-> series[i].den], 1, n)
        y == [i \in 1..n |-> series[i].num * (D \div series[i].den)]
        Sx == SumOver([i \in 1..n |-> i - 1], 1, n)
        Sxx == SumOver([i \in 1..n |-> (i - 1) * (i - 1)], 1, n)
        Sy == SumOver(y, 1, n)
        Sxy == SumOver([i \in 1..n |-> (i - 1) * y[i]], 1, n)
        var == n * Sxx - Sx * Sx
        cov == n * Sxy - Sx * Sy
    IN  Rounded(Rat(Sy * var + cov * (n * x - Sx), n * var * D), e)

\* np.arange(len(data), len(data) + periods), line 125.
\* Faulty variant: np.arange(periods).
FutureXFromZero(series, periods) == [j \in 1..periods |-> j - 1]
FutureX(series, periods) == [j \in 1..periods |-> Len(series) + j - 1]

\* Faulty variant: the guard of line 116 written as len(data) < 1.
predict_growth_guard_off_by_one(series, periods, rounding) ==
    IF Len(series) < 1 THEN series
    ELSE IF Len(series) = 1 THEN [j \in 1..periods |-> series[1]]
    ELSE LET future_X == FutureX(series, periods)
         IN  [j \in 1..periods |->
                LinearRegressionPredict(series, future_X[j], rounding[j])]

predict_growth(series, periods, rounding) ==
    IF Len(series) < 2 THEN series
    ELSE LET future_X == FutureX(series, periods)
         IN  [j \in 1..periods |->
                LinearRegressionPredict(series, future_X[j], rounding[j])]

\* historical = [current_stars - (days_past - i) * 10 for i in
\* range(days_past)], line 307, as the pd.Series handed to predict_growth.
Historical(current_stars) ==
    [j \in 1..DaysPast |-> Float(current_stars - (DaysPast - (j - 1)) * StarStep)]

----------------------------------------------------------------------------
(* Top contributors (src/app.py 240-249).                                  *)

ContributorRecord(login, contributions) ==
    [login |-> login, contributions |-> contributions]

\* xs[:n]
Prefix(xs, n) == SubSeq(xs, 1, Min(n, Len(xs)))

\* Insert x behind every element whose key is >= its own: the place a
\* stable descending sort gives it among the elements placed before it.
RECURSIVE InsertDescending(_, _)
InsertDescending(sorted, x) ==
    IF sorted = <<>> THEN <<x>>
    ELSE IF Head(sorted).contributions >= x.contributions
         THEN <<Head(sorted)>> \o InsertDescending(Tail(sorted), x)
         ELSE <<x>> \o sorted

\* sorted(xs, key=lambda x: x.get('contributions', 0), reverse=True):
\* descending, and stable (reverse=True keeps equal keys in input order).
RECURSIVE SortedDescending(_, _)
SortedDescending(xs, n) ==
    IF n = 0 THEN <<>>
    ELSE InsertDescending(SortedDescending(xs, n - 1), xs[n])

sorted_by_contributions(xs) == SortedDescending(xs, Len(xs))

\* top_contributors = sorted(contributors[:10], ...), line 240.
TopContributors(contributors) ==
    sorted_by_contributions(Prefix(contributors, TopK))

\* The rows of contrib_df, lines 243-249.
ContribRows(top) ==
    [i \in 1..Len(top) |-> [Contributor |-> top[i].login,
                            Contributions |-> top[i].contributions]]

----------------------------------------------------------------------------
(* The world the script runs in: the clock, the host's time zone, the      *)
(* user's inputs and GitHub's answers.                                     *)

\* The behaviours start at 2024-10-04T12:00:00Z, day 20000 of the epoch.
StartClock == 20000 * SecondsPerDay + 12 * 3600
StartDay == StartClock \div SecondsPerDay
\* A host at UTC+05:45.
TzEast == 5 * 3600 + 45 * 60
TzOffsets == {0, TzEast}

\* The clock advances in steps of half the cache's ttl.
TickSeconds == TTL \div 2

\* Instants of well-formed timestamps, placed around the cutoff of a
\* computation running at StartClock: exactly seven days before, one
\* second later, and one second later than the cutoff a host at TzEast
\* computes.
Instants ==
    {StartClock - Week, StartClock - Week + 1, StartClock - Week + TzEast + 1}

\* A string of the right format whose hour is out of range.
BadHour == Timestamp(StartDay, 25, 0, 0)

Timestamps == {Isoformat(t) : t \in Instants} \cup {BadHour, None, Missing}
CreatedAts ==
    {Isoformat(StartClock - Week), Isoformat(StartClock - Week + 1), None}
MergedAts == {None, Isoformat(StartClock - Week)}

CommitRecords == {CommitRecord(d) : d \in Timestamps}
PrRecords == {PrRecord(c, m) : c \in CreatedAts, m \in MergedAts}

DefaultOrg == "saveenstha"      \* text_input(..., value="saveenstha")
DefaultRepo == "dashboard"      \* text_input(..., value="dashboard")
Orgs == {"", DefaultOrg}
Repos == {"", DefaultRepo, "docs"}
Keys == (Orgs \ {""}) \X (Repos \ {""})

Resources == <<"repo", "contributors", "issues", "prs", "commits">>

HttpOk == 200                   \* response.status_code == 200

RepoBody == [stargazers_count |-> 40, forks_count |-> 3, watchers_count |-> 40]
ContributorsBody ==
    <<ContributorRecord(1, 7), ContributorRecord(2, 9), ContributorRecord(3, 7)>>
IssuesBody == <<[state |-> "open"], [state |-> "closed"]>>
PrsBody ==
    <<PrRecord(Isoformat(StartClock - Week + 1), Isoformat(StartClock - Week)),
      PrRecord(Isoformat(StartClock - Week), None)>>
CommitsBody == <<CommitRecord(Isoformat(StartClock - Week + 1))>>
CommitsBodyBadDate ==
    <<CommitRecord(Isoformat(StartClock - Week + 1)), CommitRecord(BadHour)>>
ErrorBody == [message |-> "Not Found"]

\* What GitHub holds for a repository: the repository "docs" has a commit
\* whose date cannot be parsed.
Body(resource, repo) ==
    CASE resource = "repo" -> RepoBody
      [] resource = "contributors" -> ContributorsBody
      [] resource = "issues" -> IssuesBody
      [] resource = "prs" -> PrsBody
      [] resource = "commits" ->
            IF repo = DefaultRepo THEN CommitsBody ELSE CommitsBodyBadDate

\* What requests.get can do: raise (no connection, timeout), or answer
\* with a status and a JSON body.
Raises == [raises |-> TRUE, status |-> 0, body |-> <<>>]
Answer(status, body) == [raises |-> FALSE, status |-> status, body |-> body]
Answers(resource, repo) ==
    {Raises, Answer(HttpOk, Body(resource, repo)),
     Answer(404, ErrorBody)}

IsNon200(answer) == ~answer.raises /\ answer.status # HttpOk

----------------------------------------------------------------------------
(* fetch_repo_data (src/app.py 41-81) under @st.cache_data(ttl=600).       *)

\* st.cache_data keys an entry by the function's arguments.
CacheKey(org, repo) == <<org, repo>>

\* An entry is served while it is younger than the ttl.
\* Faulty variant: an entry exactly ttl seconds old is still served.
CacheFreshInclusive(entry, now) == entry.present /\ now - entry.at <= TTL
CacheFresh(entry, now) == entry.present /\ now - entry.at < TTL

NoEntry == [present |-> FALSE, at |-> 0, value |-> <<>>, msgs |-> <<>>]
NeverRan == [ran |-> FALSE, at |-> 0, value |-> <<>>]

\* response.json() if response.status_code == 200 else {} (or []).
\* Faulty variant: the body is taken whatever the status.
ResourceResultAnyStatus(answer) == answer.body
ResourceResult(answer) ==
    IF answer.status = HttpOk THEN answer.body ELSE <<>>

\* The dict of lines 72-78, from the five answers.
Snapshot(rs) ==
    [repo |-> ResourceResult(rs[1]),
     contributors |-> ResourceResult(rs[2]),
     issues |-> ResourceResult(rs[3]),
     prs |-> ResourceResult(rs[4]),
     commits |-> ResourceResult(rs[5])]

FetchError == [level |-> "error", text |-> "Error fetching data"]
CouldNotFetch == [level |-> "error", text |-> "Could not fetch repository data"]
EnterNames == [level |-> "info", text |-> "Enter GitHub organization and repository name"]

\* int(x): the float truncated toward zero.  A float a rounding error
\* below a positive whole number n truncates to n - 1, one a rounding
\* error above a negative whole number n to n + 1.
IntOf(x) ==
    LET n == x.num \div x.den
    IN  IF x.num % x.den # 0
        THEN IF x.num >= 0 THEN n ELSE n + 1
        ELSE IF x.err = -1 /\ n > 0 THEN n - 1
        ELSE IF x.err = 1 /\ n < 0 THEN n + 1
        ELSE n

\* st.info(f"Predicted stars in 30 days: **{int(predicted[-1]):,}**"),
\* line 332.
PredictedStars(forecast) ==
    [level |-> "info", text |-> "Predicted stars in 30 days",
     stars |-> IntOf(forecast[Len(forecast)])]

----------------------------------------------------------------------------
(* The script run.  Streamlit runs the script from top to bottom on page   *)
(* load and again after every widget event of the session; the events are  *)
(* taken between runs.  Of the charting calls only px.bar of line 250 is   *)
(* modelled, by whether it raises.                                         *)

AppInit ==
    /\ clock = StartClock
    /\ tz \in TzOffsets
    /\ org_name = DefaultOrg
    /\ repo_name = DefaultRepo
    /\ refresh_button = FALSE
    /\ cache = [k \in Keys |-> NoEntry]
    /\ pc = "start"
    /\ requests = <<>>
    /\ responses = <<>>
    /\ data = <<>>
    /\ messages = <<>>
    /\ velocity = Pending
    /\ top_contributors = <<>>
    /\ predicted = <<>>
    /\ outcome = "running"
    /\ executed = [k \in Keys |-> NeverRan]
    /\ prior = NeverRan
    /\ callAt = StartClock
    /\ ticks = 0
    /\ runs = 1
    /\ non200s = 0

PureIdle == op = "none" /\ args = <<>> /\ result = Pending

Init == AppInit /\ PureIdle

\* A widget event reruns the script from the top with a fresh page.
Rerun ==
    /\ pc = "idle"
    /\ runs < MaxRuns
    /\ runs' = runs + 1
    /\ pc' = "start"
    /\ requests' = <<>>
    /\ responses' = <<>>
    /\ data' = <<>>
    /\ messages' = <<>>
    /\ velocity' = Pending
    /\ top_contributors' = <<>>
    /\ predicted' = <<>>
    /\ outcome' = "running"
    /\ UNCHANGED <<clock, tz, cache, executed, prior, callAt, ticks, non200s>>

\* The user types another organization, line 133.
EditOrg ==
    /\ \E v \in Orgs \ {org_name} : org_name' = v
    /\ refresh_button' = FALSE
    /\ Rerun
    /\ UNCHANGED <<repo_name, purevars>>

\* The user types another repository, line 134.
EditRepo ==
    /\ \E v \in Repos \ {repo_name} : repo_name' = v
    /\ refresh_button' = FALSE
    /\ Rerun
    /\ UNCHANGED <<org_name, purevars>>

\* The user presses "Refresh Data", line 135: the button is True in the
\* run the press starts, and nothing reads it.
PressRefresh ==
    /\ refresh_button' = TRUE
    /\ Rerun
    /\ UNCHANGED <<org_name, repo_name, purevars>>

\* Time passes between two runs.
Tick ==
    /\ pc = "idle"
    /\ ticks < MaxTicks
    /\ ticks' = ticks + 1
    /\ clock' = clock + TickSeconds
    /\ UNCHANGED <<tz, org_name, repo_name, refresh_button, cache, pc,
                   requests, responses, data, messages, velocity,
                   top_contributors, predicted, outcome, executed, prior,
                   callAt, runs, non200s, purevars>>

\* if org_name and repo_name: ... else: st.info(...), lines 142 and 361-362.
CheckInputs ==
    /\ pc = "start"
    /\ IF org_name # "" /\ repo_name # ""
       THEN /\ pc' = "fetch"
            /\ UNCHANGED <<messages, outcome>>
       ELSE /\ pc' = "idle"
            /\ messages' = Append(messages, EnterNames)
            /\ outcome' = "info"
    /\ UNCHANGED <<clock, tz, org_name, repo_name, refresh_button, cache,
                   requests, responses, data, velocity, top_contributors,
                   predicted, executed, prior, callAt, ticks, runs, non200s, purevars>>

\* data = fetch_repo_data(org_name, repo_name), line 144, at the decorator:
\* a fresh entry is returned without running the body, and the st.error the
\* body showed when the entry was made is shown again.
CallFetchRepoData ==
    /\ pc = "fetch"
    /\ prior' = executed[<<org_name, repo_name>>]
    /\ callAt' = clock
    /\ LET entry == cache[CacheKey(org_name, repo_name)]
       IN  IF CacheFresh(entry, clock)
           THEN /\ data' = entry.value
                /\ messages' = messages \o entry.msgs
                /\ pc' = "check"
           ELSE /\ pc' = "request"
                /\ UNCHANGED <<data, messages>>
    /\ UNCHANGED <<clock, tz, org_name, repo_name, refresh_button, cache,
                   requests, responses, velocity, top_contributors,
                   predicted, outcome, executed, ticks, runs, non200s, purevars>>

\* The function returns v after showing msgs: the decorator stores both.
StoreAndReturn(v, msgs) ==
    /\ data' = v
    /\ messages' = messages \o msgs
    /\ cache' = [cache EXCEPT ![CacheKey(org_name, repo_name)] =
                    [present |-> TRUE, at |-> clock, value |-> v,
                     msgs |-> msgs]]
    /\ executed' = [executed EXCEPT ![<<org_name, repo_name>>] =
                       [ran |-> TRUE, at |-> clock, value |-> v]]
    /\ pc' = "check"

\* One requests.get of the body, lines 46-81, in the order repo,
\* contributors, issues, pulls, commits.  A raise is caught at line 79:
\* st.error and return {}.  After the fifth answer the dict is returned.
Request ==
    /\ pc = "request"
    /\ \E answer \in Answers(Resources[Len(requests) + 1], repo_name) :
          /\ IF IsNon200(answer)
             THEN non200s < MaxNon200 /\ non200s' = non200s + 1
             ELSE UNCHANGED non200s
          /\ requests' = Append(requests, Resources[Len(requests) + 1])
          /\ responses' = Append(responses, answer)
          /\ IF answer.raises
             THEN StoreAndReturn(<<>>, <<FetchError>>)
             ELSE IF Len(requests) + 1 = Len(Resources)
             THEN StoreAndReturn(Snapshot(Append(responses, answer)), <<>>)
             ELSE UNCHANGED <<data, messages, cache, executed, pc>>
    /\ UNCHANGED <<clock, tz, org_name, repo_name, refresh_button, velocity,
                   top_contributors, predicted, outcome, prior, callAt,
                   ticks, runs, purevars>>

\* if data and data.get("repo"): ... else: st.error(...), lines 146, 359-360.
\* The answers were locals of fetch_repo_data and are gone by now.
CheckData ==
    /\ pc = "check"
    /\ IF data # <<>> /\ data.repo # <<>>
       THEN /\ pc' = "metrics"
            /\ UNCHANGED <<messages, outcome>>
       ELSE /\ pc' = "idle"
            /\ messages' = Append(messages, CouldNotFetch)
            /\ outcome' = "error"
    /\ responses' = <<>>
    /\ UNCHANGED <<clock, tz, org_name, repo_name, refresh_button, cache,
                   requests, data, velocity, top_contributors,
                   predicted, executed, prior, callAt, ticks, runs, non200s, purevars>>

\* The key metrics row, lines 153-193: calculate_velocity_metrics(commits,
\* prs) at line 181.  Nothing catches what it raises: the run ends there.
KeyMetrics ==
    /\ pc = "metrics"
    /\ velocity' = calculate_velocity_metrics(data.commits, data.prs,
                                              datetime_now(clock, tz))
    /\ IF velocity'.raised
       THEN pc' = "idle" /\ outcome' = "crashed"
       ELSE pc' = "tabs" /\ UNCHANGED outcome
    /\ UNCHANGED <<clock, tz, org_name, repo_name, refresh_button, cache,
                   requests, responses, data, messages, top_contributors,
                   predicted, executed, prior, callAt, ticks, runs, non200s, purevars>>

\* px.bar(contrib_df, x='Contributions', y='Contributor', ...) at line
\* 250.  Of no contributors, contrib_df = pd.DataFrame([]) has no columns,
\* and plotly is asked for columns the frame does not have: the call may
\* raise ValueError.  The source does not fix which; both are outcomes.
PxBarRaises(rows) == IF Len(rows) = 0 THEN BOOLEAN ELSE {FALSE}

\* tab1 and tab2, lines 195-261: the leaderboard of tab2.  Nothing catches
\* what px.bar raises: the run ends there, before tab4.
RenderLeaderboard ==
    /\ pc = "tabs"
    /\ top_contributors' = ContribRows(TopContributors(data.contributors))
    /\ \E raises \in PxBarRaises(top_contributors') :
          IF raises
          THEN pc' = "idle" /\ outcome' = "crashed"
          ELSE pc' = "forecast" /\ UNCHANGED outcome
    /\ UNCHANGED <<clock, tz, org_name, repo_name, refresh_button, cache,
                   requests, responses, data, messages, velocity, predicted,
                   executed, prior, callAt, ticks, runs, non200s, purevars>>

\* The ways the solver may err on the forecast of tab4: on every value
\* alike.
ForecastRoundings ==
    {[j \in 1..ForecastPeriods |-> e] : e \in Roundings}

\* tab3 and tab4, lines 263-357: the forecast of tab4 with its st.info
\* notice of line 332, which shows int() of the last float, then the
\* footer.
RenderForecast ==
    /\ pc = "forecast"
    /\ \E rounding \in ForecastRoundings :
          predicted' = predict_growth(Historical(data.repo.stargazers_count),
                                      ForecastPeriods, rounding)
    /\ messages' = Append(messages, PredictedStars(predicted'))
    /\ pc' = "idle"
    /\ outcome' = "rendered"
    /\ UNCHANGED <<clock, tz, org_name, repo_name, refresh_button, cache,
                   requests, responses, data, velocity, top_contributors,
                   executed, prior, callAt, ticks, runs, non200s, purevars>>

Next ==
    \/ EditOrg
    \/ EditRepo
    \/ PressRefresh
    \/ Tick
    \/ CheckInputs
    \/ CallFetchRepoData
    \/ Request
    \/ CheckData
    \/ KeyMetrics
    \/ RenderLeaderboard
    \/ RenderForecast

Spec == Init /\ [][Next]_vars

----------------------------------------------------------------------------
(* The pure functions, each applied to arguments drawn from bounded sets.  *)
(* The script's variables rest at their initial values.                    *)

AppAtRest == AppInit /\ tz = 0

\* calculate_velocity_metrics(commits, prs) on a host whose clock reads
\* args.clock (UTC) and whose time zone is args.tz.
InitVelocity ==
    /\ AppAtRest
    /\ op = "calculate_velocity_metrics"
    /\ args \in [commits : SeqsUpTo(CommitRecords, MaxCommits),
                 prs : SeqsUpTo(PrRecords, MaxPrs),
                 clock : {StartClock},
                 tz : TzOffsets]
    /\ result = Pending

CallVelocity ==
    /\ op = "calculate_velocity_metrics"
    /\ result = Pending
    /\ result' = Done(calculate_velocity_metrics(
                          args.commits, args.prs,
                          datetime_now(args.clock, args.tz)))
    /\ UNCHANGED <<op, args, appvars>>

SpecVelocity == InitVelocity /\ [][CallVelocity]_vars

\* predict_growth(series, periods), called twice with the same arguments.
\* args.rounding is the way the build's solver errs on this input.
Twice(v, w) == [state |-> "twice", value |-> v, again |-> w]

ExampleHistory == <<Float(1), Float(2), Float(3), Float(4), Float(5)>>
ExamplePeriods == Len(ExampleHistory)

InitForecast ==
    /\ AppAtRest
    /\ op = "predict_growth"
    /\ \E series \in SeqsUpTo({Float(v) : v \in 0..MaxValue}, MaxHistory)
                         \cup {ExampleHistory},
          periods \in 1..MaxPeriods \cup {ExamplePeriods} :
          \E rounding \in [1..periods -> Roundings] :
             args = [series |-> series, periods |-> periods,
                     rounding |-> rounding]
    /\ result = Pending

CallForecast ==
    /\ op = "predict_growth"
    /\ result = Pending
    /\ result' = Done(predict_growth(args.series, args.periods,
                                     args.rounding))
    /\ UNCHANGED <<op, args, appvars>>

CallForecastAgain ==
    /\ op = "predict_growth"
    /\ result.state = "done"
    /\ result' = Twice(result.value,
                       predict_growth(args.series, args.periods,
                                      args.rounding))
    /\ UNCHANGED <<op, args, appvars>>

NextForecast == CallForecast \/ CallForecastAgain

SpecForecast == InitForecast /\ [][NextForecast]_vars

\* The leaderboard of tab2 for a list of contributors; a contributor's
\* login is its position in the list GitHub sent.
ContributionCounts == {1, 2}

InitRank ==
    /\ AppAtRest
    /\ op = "top_contributors"
    /\ \E cs \in SeqsUpTo(ContributionCounts, MaxContributors) :
          args = [contributors |->
                     [i \in 1..Len(cs) |-> ContributorRecord(i, cs[i])]]
    /\ result = Pending

CallRank ==
    /\ op = "top_contributors"
    /\ result = Pending
    /\ result' = Done(ContribRows(TopContributors(args.contributors)))
    /\ UNCHANGED <<op, args, appvars>>

SpecRank == InitRank /\ [][CallRank]_vars

----------------------------------------------------------------------------
(* Claims about calculate_velocity_metrics, under SpecVelocity.            *)

VelocityReturned ==
    /\ op = "calculate_velocity_metrics"
    /\ result.state = "done"
    /\ ~result.value.raised

Metrics == result.value.value

ZeroMetrics ==
    [commits_last_week |-> 0, prs_last_week |-> 0, total_prs |-> 0,
     merged_prs |-> 0, pr_merge_rate |-> Float(0)]

\* C1: whenever calculate_velocity_metrics returns, merged_prs is at most
\* total_prs, total_prs is the length of the pull-request list, and
\* pr_merge_rate is 0 for an empty list; with no pull requests and no
\* commits the call returns, without raising, the all-zero metrics.
C1_MergedAtMostTotal ==
    /\ VelocityReturned =>
          /\ Metrics.total_prs = Len(args.prs)
          /\ Metrics.merged_prs <= Metrics.total_prs
          /\ (args.prs = <<>> => Metrics.pr_merge_rate = Float(0))
    /\ (/\ op = "calculate_velocity_metrics"
        /\ result.state = "done"
        /\ args.prs = <<>>
        /\ args.commits = <<>>)
          => (~result.value.raised /\ Metrics = ZeroMetrics)

C1_Witness ==
    /\ VelocityReturned
    /\ args.prs = <<>>
    /\ args.commits = <<>>
    /\ Metrics = ZeroMetrics

\* The instant a well-formed timestamp names (it is written in UTC).
Instant(ts) == strptime(ts).value

WellFormed(ts) == ts.kind = "str" /\ ~strptime(ts).raised

\* The records dated strictly later than seven days before the instant
\* at which the computation runs.
NewerThanAWeekAgo(dates, now) ==
    {i \in 1..Len(dates) : WellFormed(dates[i]) /\ Instant(dates[i]) > now - Week}

CommitDates == [i \in 1..Len(args.commits) |-> CommitDate(args.commits[i])]
CreatedDates == [i \in 1..Len(args.prs) |-> PrCreatedAt(args.prs[i])]

\* C2: for well-formed timestamps, commits_last_week is the number of
\* commits dated strictly later than the current instant minus 7 days, and
\* prs_last_week is the same count over created_at.
C2_CountsSinceCutoff ==
    (/\ VelocityReturned
     /\ \A i \in 1..Len(CommitDates) : WellFormed(CommitDates[i])
     /\ \A i \in 1..Len(CreatedDates) : WellFormed(CreatedDates[i]))
       => /\ Metrics.commits_last_week
                = Cardinality(NewerThanAWeekAgo(CommitDates, args.clock))
          /\ Metrics.prs_last_week
                = Cardinality(NewerThanAWeekAgo(CreatedDates, args.clock))

\* C3: a record with an unparseable or missing timestamp does not abort
\* the computation: the call returns, the record is left out of the
\* last-week count and the other records are counted as usual.
C3_BadRecordSkipped ==
    (op = "calculate_velocity_metrics" /\ result.state = "done")
       => /\ ~result.value.raised
          /\ Metrics.commits_last_week
                = Cardinality(NewerThanAWeekAgo(
                      CommitDates, datetime_now(args.clock, args.tz)))
          /\ Metrics.prs_last_week
                = Cardinality(NewerThanAWeekAgo(
                      CreatedDates, datetime_now(args.clock, args.tz)))

----------------------------------------------------------------------------
(* Claims about predict_growth, under SpecForecast.                        *)

ForecastDone ==
    op = "predict_growth" /\ result.state \in {"done", "twice"}
ForecastTwice == op = "predict_growth" /\ result.state = "twice"

\* C9: a history of fewer than 2 points is returned unchanged, whatever
\* periods is; a history of 2 or more points gives exactly periods values.
C9_ShortHistoryUnchanged ==
    ForecastDone =>
       IF Len(args.series) < 2
       THEN result.value = args.series
       ELSE Len(result.value) = args.periods

C9_Witness ==
    /\ ForecastDone
    /\ Len(args.series) = 1
    /\ args.periods > 1
    /\ result.value = args.series

\* The history lies on the line value = a + b * index, a and b integers.
OnLine(series, a, b) ==
    \A i \in 1..Len(series) : series[i] = Float(a + b * (i - 1))

\* The float x is the whole number v up to a rounding error.
Nearly(x, v) == x.num = v /\ x.den = 1

----------------------------------------------------------------------------
(* Claim about the leaderboard, under SpecRank.                            *)

RankDone == op = "top_contributors" /\ result.state = "done"

\* Position in the input of the contributor shown in row i.
Position(row) == row.Contributor

\* C8: the list shown has min(10, n) rows, is sorted by contribution count
\* descending with equal counts in input order, and holds the 10 highest
\* counts of the whole input, whatever its order.
C8_TopOfWholeInput ==
    RankDone =>
       LET rows == result.value
           input == args.contributors
           shown == {Position(rows[i]) : i \in 1..Len(rows)}
       IN  /\ Len(rows) = Min(TopK, Len(input))
           /\ \A i \in 1..Len(rows) :
                 rows[i].Contributions = input[Position(rows[i])].contributions
           /\ \A i, j \in 1..Len(rows) :
                 i < j => \/ rows[i].Contributions > rows[j].Contributions
                          \/ /\ rows[i].Contributions = rows[j].Contributions
                             /\ Position(rows[i]) < Position(rows[j])
           /\ \A p \in 1..Len(input) : \A q \in shown :
                 p \notin shown
                    => input[p].contributions <= input[q].contributions

----------------------------------------------------------------------------
(* Claims about the script run, under Spec.                                *)

\* fetch_repo_data has just returned to line 144.
FetchReturned == pc = "check"

\* The pair was fetched less than ttl seconds before the call began.
FetchedRecently == prior.ran /\ callAt - prior.at < TTL

RaisedInCall == responses # <<>> /\ responses[Len(responses)].raises

\* The requests issued are the first resources, in order.
InOrder == requests = SubSeq(Resources, 1, Len(requests))

\* C4 as claimed: a call for a pair fetched less than 600 seconds earlier
\* issues no request and returns the stored snapshot; any other call
\* performs the five requests.
C4_Original ==
    FetchReturned =>
       IF FetchedRecently
       THEN requests = <<>> /\ data = prior.value
       ELSE requests = Resources

\* C4: a call for a pair fetched less than 600 seconds earlier issues no
\* request and returns the stored snapshot; any other call (another pair,
\* or the same pair once 600 seconds have passed) runs the body again:
\* the requests are issued in order from the first, all five unless one
\* of them raises, which ends the call.
C4_CacheWindow ==
    FetchReturned =>
       IF FetchedRecently
       THEN requests = <<>> /\ data = prior.value
       ELSE /\ requests # <<>>
            /\ InOrder
            /\ Len(responses) = Len(requests)
            /\ \A i \in 1..Len(responses) - 1 : ~responses[i].raises
            /\ (~RaisedInCall => requests = Resources)

C4_Witness ==
    /\ FetchReturned
    /\ FetchedRecently
    /\ callAt > prior.at
    /\ requests = <<>>
    /\ data # <<>>
    /\ data = prior.value

\* C5: when no request raises, a non-200 answer empties only its own
\* resource: all five requests are issued in order, every resource
\* answered with 200 keeps its body, and the call returns the snapshot.
C5_Non200EmptiesOnlyItsResource ==
    (FetchReturned /\ requests # <<>> /\ ~RaisedInCall)
       => /\ requests = Resources
          /\ Len(responses) = Len(Resources)
          /\ data # <<>>
          /\ \A i \in 1..Len(Resources) :
                data[Resources[i]] =
                   IF responses[i].status = HttpOk
                   THEN responses[i].body ELSE <<>>

C5_Witness ==
    /\ FetchReturned
    /\ requests = Resources
    /\ IsNon200(responses[3])
    /\ data.issues = <<>>
    /\ data.repo = RepoBody
    /\ data.commits # <<>>

Errors == {i \in 1..Len(messages) : messages[i].level = "error"}

RunEnded == pc = "idle"

\* A request of this run raised: the body ran and returned {}.
RaisedThisRun == requests # <<>> /\ data = <<>>

\* C6: when a request raises, the run does not crash, exactly one error
\* message is shown in that run, and no velocity, ranking or forecast
\* computation takes place.
C6_SingleNotice ==
    (RunEnded /\ RaisedThisRun)
       => /\ outcome # "crashed"
          /\ Cardinality(Errors) = 1
          /\ velocity = Pending
          /\ top_contributors = <<>>
          /\ predicted = <<>>

\* C7: a run started by pressing Refresh Data with both names filled in
\* fetches the five resources, in order, before it computes and renders.
C7_RefreshFetches ==
    (RunEnded /\ refresh_button /\ org_name # "" /\ repo_name # "")
       => /\ requests = Resources
          /\ (outcome = "rendered" => ~velocity.raised)

============================================================================
